---- MODULE Spec2Model ----
(***************************************************************************)
(* The ExamRoom session controller (components/ExamRoom.tsx): one React    *)
(* component instance that owns a live conversation channel, the capture   *)
(* producers wired to it, the playback scheduler and the transcript log.   *)
(*                                                                         *)
(* Granularity.  The browser runs one task at a time, so every callback    *)
(* of the component is one action.  startSession is an async function: it  *)
(* is cut at the awaits that wait for the browser or the network (the two  *)
(* resume() calls, getUserMedia, the channel connect).  The channel's open *)
(* callback and the continuation `sessionRef.current = await               *)
(* sessionPromise` run in the same task (the connect promise is resolved   *)
(* by the open event itself), so they form one action.  The await inside   *)
(* onmessage waits only for decodeAudioData, which never suspends, so a    *)
(* message is dispatched in one action.                                    *)
(*                                                                         *)
(* A start attempt and the channel it connects share one identifier: every *)
(* invocation of startSession connects at most one channel.                *)
(*                                                                         *)
(* The model follows one instance of the room, from its first render to    *)
(* after its unmount: the callbacks that outlive the unmount (timers, taps,*)
(* in-flight starts, channel events) keep running on its refs.  examStatus *)
(* is App's state as those callbacks write it; a room that App would mount *)
(* anew on it is a new instance and is not part of the model.  App's       *)
(* report (App.tsx, generateReport) follows the end of the exam.           *)
(***************************************************************************)
EXTENDS Integers, Sequences, FiniteSets

\* ------------------------------------------------------------------ bounds
MaxAttempts == 3      \* start attempts (= channels) explored in one exam room
MaxClock == 2         \* values of the output context's currentTime explored
MaxDur == 2           \* longest audio buffer, in clock units
MaxTime == 4          \* largest nextStartTime explored
MaxStopped == 2       \* stopped sources whose ended event is still to come
MaxLetters == 3       \* letters of transcript text received (pending plus committed)
MaxBytes == 4         \* longest byte sequence handed to encode
MaxSamples == 4       \* most interleaved samples handed to decodeAudioData
MaxChannels == 2      \* most channels asked of decodeAudioData
MaxSeconds == 3       \* longest exam, in ticks of the countdown

\* The duration handed to the room.
initialTimeSeconds == MaxSeconds

Ids == 1..MaxAttempts
NoSession == 0        \* sessionRef.current === null, frameIntervalRef.current === null

\* The personas the user picks among (PERSONAS[0] is selected initially).
PERSONAS == {"Charon", "Puck"}
InitialPersona == "Charon"

SystemError == "System error. Restarting..."
DeviceError == "Microphone/Camera access error."
NoError == "null"

AudioMime == "audio/pcm;rate=16000"
ImageMime == "image/jpeg"

VARIABLES
    mounted,              \* "init" | "mounted" | "unmounted": the component's lifecycle
    examStatus,           \* App's examStatus, written through onStatusChange / onEnd
    selectedPersonaId,    \* useState('Charon')
    errorMessage,         \* useState<string | null>(null)
    isClosingRef,         \* useRef(false)
    sessionRef,           \* the attempt whose session is held, or NoSession
    frameIntervalRef,     \* the attempt whose interval timer is held, or NoSession
    streamRef,            \* TRUE iff a MediaStream is held
    audioContexts,        \* how many times the two AudioContexts were created
    chan,                 \* attempt -> [st, persona, origin, cause]: where the attempt
                          \* or its channel stands, the persona of the render that
                          \* started it, what started it (the effect, a retry timer,
                          \* a retry timer that fired with the closing flag set) and
                          \* the channel whose error set that timer; atStop records
                          \* that the room was unmounted while the channel was
                          \* connecting or connected
    tap,                  \* attempt -> its ScriptProcessor is wired and firing
    ticker,               \* attempt -> its setInterval timer is live
    retry,                \* attempt -> "none" | "pending" | "stale" | "fired": the
                          \* setTimeout of its onerror; stale is pending since
                          \* before the room was unmounted
    outbound,             \* the last sendRealtimeInput recorded, or NoMsg
    transcriptions,       \* the committed log: sequence of [role, text]
    currentInputTextRef,  \* pending candidate text
    currentOutputTextRef, \* pending examiner text
    isExaminerSpeaking,   \* useState(false)
    nextStartTimeRef,     \* useRef(0)
    sourcesRef,           \* the active set: [start, dur] of each scheduled source
    endedPending,         \* stopped sources whose ended event is still to be delivered
    currentTime,          \* outputAudioContext.currentTime
    examStats,            \* App's useState<ExamStats | null>(null)
    isGeneratingReport,   \* App's useState(false)
    isActive,             \* useState(false): the session-active flag
    closeSeen,            \* the channels whose onclose callback has run
    timeLeft,             \* useState(initialTimeSeconds)
    sessionTranscript,    \* App's useState<TranscriptionEntry[]>([])
    probe                 \* a codec function applied to an input: [fn, in, out]

vars == <<mounted, examStatus, selectedPersonaId, errorMessage, isClosingRef,
          sessionRef, frameIntervalRef, streamRef, audioContexts, chan, tap,
          ticker, retry, outbound, transcriptions, currentInputTextRef,
          currentOutputTextRef, isExaminerSpeaking, nextStartTimeRef,
          sourcesRef, endedPending, currentTime, examStats,
          isGeneratingReport, isActive, closeSeen, timeLeft,
          sessionTranscript, probe>>

lifecycleVars == <<mounted, examStatus, selectedPersonaId, errorMessage,
                   isClosingRef, sessionRef, frameIntervalRef, streamRef,
                   audioContexts, chan, tap, ticker, retry>>
transcriptVars == <<transcriptions, currentInputTextRef, currentOutputTextRef>>
playbackVars == <<isExaminerSpeaking, nextStartTimeRef, sourcesRef, endedPending>>
reportVars == <<examStats, isGeneratingReport>>
activeVars == <<isActive, closeSeen>>
codecVars == <<probe>>
countdownVars == <<timeLeft, sessionTranscript>>

NoMsg == [ch |-> NoSession, mimeType |-> "none", target |-> "none"]
NoChan == [st |-> "none", persona |-> InitialPersona, origin |-> "none",
           cause |-> NoSession, atStop |-> FALSE]

\* ------------------------------------------------------------- helpers
Max(a, b) == IF a >= b THEN a ELSE b

\* Attempts already started, and the identifier the next one gets.
Used == {c \in Ids : chan[c].st # "none"}
NextId == Cardinality(Used) + 1
PendingRetries == {c \in Ids : retry[c] \in {"pending", "stale"}}

\* A channel is connected from its open callback until close() is called
\* on it or it reports an error: "open" with its session set up, "stalled"
\* when onopen threw and the session was never set up.
OpenChannels == {c \in Ids : chan[c].st \in {"open", "stalled"}}

\* React drops state updates of an unmounted component.
SetState(old, new) == IF mounted # "unmounted" THEN new ELSE old

\* ------------------------------------------------- stopActiveSession
\* sessionRef.current.close() on the held session, if any (lines 160-163).
CloseHeld(ch, s) ==
    IF s # NoSession THEN [ch EXCEPT ![s].st = "closed"] ELSE ch

\* clearInterval(frameIntervalRef.current) on the held timer, if any (164-167).
ClearHeldInterval(tk, f) ==
    IF f # NoSession THEN [tk EXCEPT ![f] = FALSE] ELSE tk

\* Everything stopActiveSession does except the close(), which the callers
\* combine with their own update of chan.
StopActiveSession_KeepSources ==
    /\ sessionRef' = NoSession
    /\ ticker' = ClearHeldInterval(ticker, frameIntervalRef)
    /\ frameIntervalRef' = NoSession
    /\ UNCHANGED <<sourcesRef, endedPending>>
    /\ isExaminerSpeaking' = FALSE
StopActiveSession ==
    /\ sessionRef' = NoSession
    /\ ticker' = ClearHeldInterval(ticker, frameIntervalRef)
    /\ frameIntervalRef' = NoSession
    /\ sourcesRef' = {}
    /\ endedPending' = endedPending + Cardinality(sourcesRef)
    /\ isExaminerSpeaking' = FALSE

\* ------------------------------------------------------ startSession
\* The part of startSession before its first await: setErrorMessage(null),
\* stopActiveSession(), the audio contexts created when absent.  The attempt
\* then waits for the two resume() calls.
NewAttempt(ch, p, origin, cause) ==
    [ch EXCEPT ![NextId] = [st |-> "resuming", persona |-> p, origin |-> origin,
                            cause |-> cause, atStop |-> FALSE]]

\* Lines 182-187: each context is created when its ref holds none.
EnsureContexts(n) == IF n = 0 THEN 1 ELSE n

StartSession(p, origin, cause) ==
    /\ NextId <= MaxAttempts
    /\ errorMessage' = SetState(errorMessage, NoError)
    /\ StopActiveSession
    /\ audioContexts' = EnsureContexts(audioContexts)
    /\ chan' = NewAttempt(CloseHeld(chan, sessionRef), p, origin, cause)

\* ai.live.connect(...) is invoked with the closure's persona: the channel
\* is now connecting and startSession waits for its session.
Connect(ch, c) == [ch EXCEPT ![c].st = "connecting"]

\* After the resume() awaits: the stream is reused when held, else
\* getUserMedia is awaited.
ResumeDone_AlwaysAcquire(c) ==
    /\ chan[c].st = "resuming"
    /\ chan' = [chan EXCEPT ![c].st = "acquiring"]
    /\ UNCHANGED <<mounted, examStatus, selectedPersonaId, errorMessage,
                   isClosingRef, sessionRef, frameIntervalRef, streamRef,
                   audioContexts, tap, ticker, retry, outbound, currentTime>>
    /\ UNCHANGED <<transcriptVars, playbackVars, reportVars, activeVars,
                   codecVars, countdownVars>>
ResumeDone(c) ==
    /\ chan[c].st = "resuming"
    /\ chan' = IF streamRef THEN Connect(chan, c)
                            ELSE [chan EXCEPT ![c].st = "acquiring"]
    /\ UNCHANGED <<mounted, examStatus, selectedPersonaId, errorMessage,
                   isClosingRef, sessionRef, frameIntervalRef, streamRef,
                   audioContexts, tap, ticker, retry, outbound, currentTime>>
    /\ UNCHANGED <<transcriptVars, playbackVars>>
    /\ UNCHANGED reportVars
    /\ UNCHANGED <<activeVars, codecVars, countdownVars>>

\* getUserMedia resolved: streamRef.current is assigned, then connect.
DeviceGranted(c) ==
    /\ chan[c].st = "acquiring"
    /\ streamRef' = TRUE
    /\ chan' = Connect(chan, c)
    /\ UNCHANGED <<mounted, examStatus, selectedPersonaId, errorMessage,
                   isClosingRef, sessionRef, frameIntervalRef,
                   audioContexts, tap, ticker, retry, outbound, currentTime>>
    /\ UNCHANGED <<transcriptVars, playbackVars>>
    /\ UNCHANGED reportVars
    /\ UNCHANGED <<activeVars, codecVars, countdownVars>>

\* ------------------------------------------- the session lifecycle effect
\* The effect's cleanup: the closing flag, stopActiveSession, the stream's
\* tracks stopped and the stream dropped.
Cleanup ==
    /\ StopActiveSession
    /\ streamRef' = FALSE

\* First run of the effect: isClosingRef.current = false; startSession().
Mount ==
    /\ mounted = "init"
    /\ mounted' = "mounted"
    /\ isClosingRef' = FALSE
    /\ StartSession(selectedPersonaId, "effect", NoSession)
    /\ UNCHANGED <<examStatus, selectedPersonaId, streamRef, tap, retry,
                   outbound, currentTime>>
    /\ UNCHANGED transcriptVars
    /\ UNCHANGED nextStartTimeRef
    /\ UNCHANGED reportVars
    /\ UNCHANGED <<activeVars, codecVars, countdownVars>>

\* The user picks another persona: the effect's cleanup runs (closing flag
\* set, teardown), then the effect runs again (flag cleared, startSession of
\* the new render).  Each retry timer still pending needs an attempt of its
\* own, so the persona change leaves room for them.
PersonaChange(p) ==
    /\ mounted = "mounted"
    /\ p # selectedPersonaId
    /\ Cardinality(Used) + Cardinality(PendingRetries) < MaxAttempts
    /\ selectedPersonaId' = p
    /\ isClosingRef' = FALSE
    /\ Cleanup
    /\ StartSession(p, "effect", NoSession)
    /\ UNCHANGED <<mounted, examStatus, tap, retry, outbound, currentTime>>
    /\ UNCHANGED transcriptVars
    /\ UNCHANGED nextStartTimeRef
    /\ UNCHANGED reportVars
    /\ UNCHANGED <<activeVars, codecVars, countdownVars>>

\* The room is unmounted: the cleanup alone.  What was in flight at that
\* moment is marked: the channels connecting or connected, the timers set.
MarkStop(ch) ==
    [c \in Ids |->
        IF ch[c].st \in {"connecting", "open", "stalled"}
          THEN [ch[c] EXCEPT !.atStop = TRUE] ELSE ch[c]]
MarkStale(r) == [c \in Ids |-> IF r[c] = "pending" THEN "stale" ELSE r[c]]

Unmount ==
    /\ mounted' = "unmounted"
    /\ isClosingRef' = TRUE
    /\ Cleanup
    /\ retry' = MarkStale(retry)

\* End of the exam: onEnd hands the log to App (handleExamEnd), which keeps
\* it and shows the report instead of the room.
OnEnd ==
    /\ mounted = "mounted"
    /\ sessionTranscript' = transcriptions
    /\ examStatus' = "FINISHED"
    /\ Unmount
    /\ chan' = CloseHeld(MarkStop(chan), sessionRef)
    /\ UNCHANGED <<selectedPersonaId, errorMessage, audioContexts, tap,
                   outbound, currentTime>>
    /\ UNCHANGED transcriptVars
    /\ UNCHANGED nextStartTimeRef
    /\ isGeneratingReport' = TRUE
    /\ UNCHANGED examStats
    /\ UNCHANGED <<activeVars, codecVars>>

\* The Terminate button.
EndExam == OnEnd /\ UNCHANGED timeLeft

\* getUserMedia rejected: the catch block reports the device error and the
\* ERROR status, on which App stops rendering the room.
DeviceDenied(c) ==
    /\ chan[c].st = "acquiring"
    /\ errorMessage' = SetState(errorMessage, DeviceError)
    /\ examStatus' = "ERROR"
    /\ IF mounted = "mounted"
         THEN /\ Unmount
              /\ chan' = [CloseHeld(MarkStop(chan), sessionRef) EXCEPT ![c].st = "failed"]
         ELSE /\ chan' = [chan EXCEPT ![c].st = "failed"]
              /\ UNCHANGED <<mounted, isClosingRef, sessionRef, frameIntervalRef,
                             ticker, streamRef, sourcesRef, endedPending,
                             isExaminerSpeaking, retry>>
    /\ UNCHANGED <<selectedPersonaId, audioContexts, tap, outbound,
                   currentTime>>
    /\ UNCHANGED transcriptVars
    /\ UNCHANGED nextStartTimeRef
    /\ UNCHANGED reportVars
    /\ UNCHANGED <<activeVars, codecVars, countdownVars>>

\* ai.live.connect(...) rejected: `await sessionPromise` throws into the same
\* catch block, which reports the same message and the ERROR status.
ConnectRejected(c) ==
    /\ chan[c].st = "connecting"
    /\ errorMessage' = SetState(errorMessage, DeviceError)
    /\ examStatus' = "ERROR"
    /\ IF mounted = "mounted"
         THEN /\ Unmount
              /\ chan' = [CloseHeld(MarkStop(chan), sessionRef) EXCEPT ![c].st = "rejected"]
         ELSE /\ chan' = [chan EXCEPT ![c].st = "rejected"]
              /\ UNCHANGED <<mounted, isClosingRef, sessionRef, frameIntervalRef,
                             ticker, streamRef, sourcesRef, endedPending,
                             isExaminerSpeaking, retry>>
    /\ UNCHANGED <<selectedPersonaId, audioContexts, tap, outbound,
                   currentTime>>
    /\ UNCHANGED transcriptVars
    /\ UNCHANGED nextStartTimeRef
    /\ UNCHANGED reportVars
    /\ UNCHANGED <<activeVars, codecVars, countdownVars>>

\* The countdown effect, lines 133-145: while isActive and timeLeft > 0 an
\* interval of one second decrements timeLeft; the render that finds
\* timeLeft = 0 with isActive calls onEnd(transcriptions).  A tick, the
\* render it causes and that render's effect are one step.
CountdownRuns_Inactive(active, left) == left > 0
CountdownRuns(active, left) == active /\ left > 0

Tick ==
    /\ mounted = "mounted"
    /\ CountdownRuns(isActive, timeLeft)
    /\ timeLeft > 1
    /\ timeLeft' = timeLeft - 1
    /\ UNCHANGED <<lifecycleVars, transcriptVars, playbackVars, reportVars,
                   activeVars, codecVars, sessionTranscript, outbound,
                   currentTime>>

\* The tick that brings timeLeft to 0.
TimeUp ==
    /\ CountdownRuns(isActive, timeLeft)
    /\ timeLeft = 1
    /\ timeLeft' = 0
    /\ OnEnd

\* stopActiveSession as a function of the state it reads (lines 159-173),
\* with the outcome of close(): an exception of close() or of stop() is
\* caught, and the statements that follow run either way.
Now == [session |-> sessionRef, interval |-> frameIntervalRef, timers |-> ticker,
        sources |-> sourcesRef, stopped |-> endedPending,
        speaking |-> isExaminerSpeaking, channels |-> chan, threw |-> FALSE]
StopResult_Unswallowed(s, closeThrows) ==
    IF s.session # NoSession /\ closeThrows
      THEN [s EXCEPT !.threw = TRUE]
      ELSE [session |-> NoSession, interval |-> NoSession,
            timers |-> ClearHeldInterval(s.timers, s.interval),
            sources |-> {}, stopped |-> s.stopped + Cardinality(s.sources),
            speaking |-> FALSE,
            channels |-> CloseHeld(s.channels, s.session),
            threw |-> s.threw]
StopResult(s, closeThrows) ==
    [session |-> NoSession, interval |-> NoSession,
     timers |-> ClearHeldInterval(s.timers, s.interval),
     sources |-> {}, stopped |-> s.stopped + Cardinality(s.sources),
     speaking |-> FALSE,
     channels |-> IF closeThrows THEN s.channels
                                 ELSE CloseHeld(s.channels, s.session),
     threw |-> s.threw]

\* ------------------------------------------------- channel callbacks
\* onopen, then the continuation of startSession that stores the session.
\* onopen reports ACTIVE, wires a ScriptProcessor to the stream and starts
\* the interval timer, overwriting frameIntervalRef.  With no stream held
\* createMediaStreamSource(null) throws after the status was reported:
\* nothing is wired and the connect promise is never resolved, so the
\* session is never stored.
ChannelOpen(c) ==
    /\ chan[c].st = "connecting"
    /\ chan' = [chan EXCEPT ![c].st = IF streamRef THEN "open" ELSE "stalled"]
    /\ examStatus' = "ACTIVE"
    /\ tap' = [tap EXCEPT ![c] = streamRef]
    /\ ticker' = [ticker EXCEPT ![c] = streamRef]
    /\ frameIntervalRef' = IF streamRef THEN c ELSE frameIntervalRef
    /\ sessionRef' = IF streamRef THEN c ELSE sessionRef
    /\ UNCHANGED <<mounted, selectedPersonaId, errorMessage, isClosingRef,
                   streamRef, audioContexts, retry, outbound, currentTime>>
    /\ UNCHANGED <<transcriptVars, playbackVars>>
    /\ UNCHANGED reportVars
    /\ isActive' = SetState(isActive, TRUE)
    /\ UNCHANGED <<closeSeen, codecVars, countdownVars>>

\* onerror: the transient message and setTimeout(startSession, 1500).  A
\* channel reports an error at most once; the timer is never cancelled.
ScheduleRetry_Never(r, c) == r
ScheduleRetry(r, c) == [r EXCEPT ![c] = "pending"]

ChannelError(c) ==
    /\ chan[c].st \in {"connecting", "open", "stalled"}
    /\ retry[c] = "none"
    /\ Cardinality(Used) + Cardinality(PendingRetries) < MaxAttempts
    /\ chan' = [chan EXCEPT ![c].st = "errored"]
    /\ errorMessage' = SetState(errorMessage, SystemError)
    /\ retry' = ScheduleRetry(retry, c)
    /\ UNCHANGED <<mounted, examStatus, selectedPersonaId, isClosingRef,
                   sessionRef, frameIntervalRef, streamRef, audioContexts,
                   tap, ticker, outbound, currentTime>>
    /\ UNCHANGED <<transcriptVars, playbackVars>>
    /\ UNCHANGED reportVars
    /\ UNCHANGED <<activeVars, codecVars, countdownVars>>

\* The retry timer fires: startSession of the render that connected c, with
\* that render's persona, whatever happened to the component meanwhile.  The
\* attempt of a timer that was pending when the room was unmounted is a
\* late retry.
RetryOrigin(r) == IF r = "stale" THEN "lateRetry" ELSE "retry"

RetryFire(c) ==
    /\ retry[c] \in {"pending", "stale"}
    /\ retry' = [retry EXCEPT ![c] = "fired"]
    /\ StartSession(chan[c].persona, RetryOrigin(retry[c]), c)
    /\ UNCHANGED <<mounted, examStatus, selectedPersonaId, isClosingRef,
                   streamRef, tap, outbound, currentTime>>
    /\ UNCHANGED transcriptVars
    /\ UNCHANGED nextStartTimeRef
    /\ UNCHANGED reportVars
    /\ UNCHANGED <<activeVars, codecVars, countdownVars>>

\* onclose: the channel's close event, which follows close() or an error,
\* once per channel.
ChannelClosed(c) ==
    /\ chan[c].st \in {"closed", "errored"}
    /\ c \notin closeSeen
    /\ closeSeen' = closeSeen \cup {c}
    /\ isActive' = SetState(isActive, FALSE)
    /\ UNCHANGED <<lifecycleVars, transcriptVars, playbackVars, reportVars,
                   codecVars, countdownVars, outbound, currentTime>>

\* ---------------------------------------------------- capture pipeline
\* sendRealtimeInput on channel c, recorded with the channel's state.
Sent(c, mime) == [ch |-> c, mimeType |-> mime, target |-> chan[c].st]

\* The producers' guard at callback entry, and the guard of the queued
\* continuation sessionPromise.then(s => ...), which runs in the same task
\* because c's promise resolved when c opened.
ProducerGuard_NoSessionCheck == ~isClosingRef
ProducerGuard == ~isClosingRef /\ sessionRef # NoSession
SendGuard == ~isClosingRef

\* scriptProcessor.onaudioprocess of the tap wired by c's onopen.
AudioProcess(c) ==
    /\ tap[c]
    /\ outbound' = IF ProducerGuard /\ SendGuard THEN Sent(c, AudioMime)
                                                ELSE outbound
    /\ UNCHANGED <<lifecycleVars, transcriptVars, playbackVars, currentTime>>
    /\ UNCHANGED reportVars
    /\ UNCHANGED <<activeVars, codecVars, countdownVars>>

\* The interval callback started by c's onopen; the video and canvas refs
\* are set while the component is mounted.
FrameTick(c) ==
    /\ ticker[c]
    /\ outbound' = IF mounted = "mounted" /\ ProducerGuard /\ SendGuard
                     THEN Sent(c, ImageMime) ELSE outbound
    /\ UNCHANGED <<lifecycleVars, transcriptVars, playbackVars, currentTime>>
    /\ UNCHANGED reportVars
    /\ UNCHANGED <<activeVars, codecVars, countdownVars>>

\* ------------------------------------------------------ inbound messages
\* A server message, by content: an audio payload of `audio` clock units
\* (0: none) that decodes or not, at most one output and one input
\* transcript fragment (a sequence of 0 or 1 texts), the two signals.
Letters == {"A", "B"}
Fragments == {<<>>} \cup {<<l>> : l \in Letters}
Present(f) == {<<t>> : t \in f}
Messages ==
    [audio : 0..MaxDur, decodable : BOOLEAN,
     out : {<<>>} \cup Present(Fragments), inp : {<<>>} \cup Present(Fragments),
     turnComplete : BOOLEAN, interrupted : BOOLEAN]

\* Lines 262-273: the buffer starts at max(nextStartTime, currentTime), the
\* timeline advances by its duration, the source joins the active set.
Enqueue_AtClock(next, srcs, now, dur) ==
    [next |-> now + dur, sources |-> srcs \cup {[start |-> now, dur |-> dur]}]
Enqueue(next, srcs, now, dur) ==
    LET start == Max(next, now)
    IN  [next |-> start + dur, sources |-> srcs \cup {[start |-> start, dur |-> dur]}]

\* Lines 276-284: the output fragment, else the input fragment.
AppendFragments_Prepend(pending, m) ==
    IF m.out # <<>> THEN [pending EXCEPT !.out = m.out[1] \o @]
    ELSE IF m.inp # <<>> THEN [pending EXCEPT !.inp = m.inp[1] \o @]
    ELSE pending
AppendFragments(pending, m) ==
    IF m.out # <<>> THEN [pending EXCEPT !.out = @ \o m.out[1]]
    ELSE IF m.inp # <<>> THEN [pending EXCEPT !.inp = @ \o m.inp[1]]
    ELSE pending

\* Lines 290-311: the candidate entry, then the examiner entry, each only
\* for a non-empty text.
Entry_Unguarded(role, text) == <<[role |-> role, text |-> text]>>
Entry(role, text) == IF text # <<>> THEN <<[role |-> role, text |-> text]>> ELSE <<>>
Commit_ExaminerFirst(log, pending) ==
    log \o Entry("examiner", pending.out) \o Entry("user", pending.inp)
Commit_Replacing(log, pending) ==
    Entry("user", pending.inp) \o Entry("examiner", pending.out)
Commit(log, pending) ==
    log \o Entry("user", pending.inp) \o Entry("examiner", pending.out)

\* Lines 286-317.
TurnComplete(log, pending, m) ==
    IF m.turnComplete
      THEN [log |-> SetState(log, Commit(log, pending)),
            pending |-> [inp |-> <<>>, out |-> <<>>]]
      ELSE [log |-> log, pending |-> pending]

\* Lines 319-326.
Interrupted_KeepSources(play, m) ==
    IF m.interrupted
      THEN [next |-> 0, sources |-> play.sources,
            speaking |-> SetState(play.speaking, FALSE), stopped |-> play.stopped]
      ELSE play
Interrupted_KeepTimeline(play, m) ==
    IF m.interrupted
      THEN [next |-> play.next, sources |-> {},
            speaking |-> SetState(play.speaking, FALSE),
            stopped |-> play.stopped + Cardinality(play.sources)]
      ELSE play
Interrupted(play, m) ==
    IF m.interrupted
      THEN [next |-> 0, sources |-> {}, speaking |-> SetState(play.speaking, FALSE),
            stopped |-> play.stopped + Cardinality(play.sources)]
      ELSE play

\* Lines 258-274, up to the await: whether the payload fails to decode (the
\* handler then rejects and the rest of it does not run).
Throws(m) == m.audio > 0 /\ ~m.decodable

Audio(play, m) ==
    IF m.audio = 0 THEN play
    ELSE IF Throws(m)
      THEN [play EXCEPT !.next = Max(play.next, currentTime),
                        !.speaking = SetState(play.speaking, TRUE)]
      ELSE [play EXCEPT !.next = Enqueue(play.next, play.sources, currentTime, m.audio).next,
                        !.sources = Enqueue(play.next, play.sources, currentTime, m.audio).sources,
                        !.speaking = SetState(play.speaking, TRUE)]

\* Letters held by the committed log.
RECURSIVE LogLetters(_)
LogLetters(log) ==
    IF log = <<>> THEN 0 ELSE Len(Head(log).text) + LogLetters(Tail(log))

Pending == [inp |-> currentInputTextRef, out |-> currentOutputTextRef]
Playback == [next |-> nextStartTimeRef, sources |-> sourcesRef,
             speaking |-> isExaminerSpeaking, stopped |-> endedPending]

\* onmessage of channel c, whole.
OnMessage_InterruptDropsText(c, m) ==
    /\ chan[c].st = "open"
    /\ LET play1 == Audio(Playback, m)
           pend1 == IF Throws(m) THEN Pending ELSE AppendFragments(Pending, m)
           turn  == IF Throws(m) THEN [log |-> transcriptions, pending |-> pend1]
                                 ELSE TurnComplete(transcriptions, pend1, m)
           play2 == IF Throws(m) THEN play1 ELSE Interrupted(play1, m)
       IN  /\ play1.next <= MaxTime
           /\ play2.stopped <= MaxStopped
           /\ Len(pend1.inp) + Len(pend1.out) + LogLetters(transcriptions) <= MaxLetters
           /\ transcriptions' = turn.log
           /\ currentInputTextRef' = IF m.interrupted THEN <<>> ELSE turn.pending.inp
           /\ currentOutputTextRef' = IF m.interrupted THEN <<>> ELSE turn.pending.out
           /\ nextStartTimeRef' = play2.next
           /\ sourcesRef' = play2.sources
           /\ endedPending' = play2.stopped
           /\ isExaminerSpeaking' = play2.speaking
    /\ UNCHANGED <<lifecycleVars, outbound, currentTime, reportVars, activeVars,
                   codecVars, countdownVars>>
OnMessage(c, m) ==
    /\ chan[c].st = "open"
    /\ LET play1 == Audio(Playback, m)
           pend1 == IF Throws(m) THEN Pending ELSE AppendFragments(Pending, m)
           turn  == IF Throws(m) THEN [log |-> transcriptions, pending |-> pend1]
                                 ELSE TurnComplete(transcriptions, pend1, m)
           play2 == IF Throws(m) THEN play1 ELSE Interrupted(play1, m)
       IN  /\ play1.next <= MaxTime
           /\ play2.stopped <= MaxStopped
           /\ Len(pend1.inp) + Len(pend1.out) + LogLetters(transcriptions) <= MaxLetters
           /\ transcriptions' = turn.log
           /\ currentInputTextRef' = turn.pending.inp
           /\ currentOutputTextRef' = turn.pending.out
           /\ nextStartTimeRef' = play2.next
           /\ sourcesRef' = play2.sources
           /\ endedPending' = play2.stopped
           /\ isExaminerSpeaking' = play2.speaking
    /\ UNCHANGED <<lifecycleVars, outbound, currentTime>>
    /\ UNCHANGED reportVars
    /\ UNCHANGED <<activeVars, codecVars, countdownVars>>

\* ------------------------------------------------------------ playback
\* The output context's clock.
ClockAdvance ==
    /\ audioContexts > 0
    /\ currentTime < MaxClock
    /\ currentTime' = currentTime + 1
    /\ UNCHANGED <<lifecycleVars, transcriptVars, playbackVars, outbound>>
    /\ UNCHANGED reportVars
    /\ UNCHANGED <<activeVars, codecVars, countdownVars>>

\* Lines 267-270: a source played to its end.
SourceEnded_AlwaysClear(s) ==
    /\ s \in sourcesRef
    /\ currentTime >= s.start + s.dur
    /\ sourcesRef' = sourcesRef \ {s}
    /\ isExaminerSpeaking' = SetState(isExaminerSpeaking, FALSE)
    /\ UNCHANGED <<lifecycleVars, transcriptVars, nextStartTimeRef, endedPending,
                   outbound, currentTime, reportVars, activeVars, codecVars,
                   countdownVars>>
SourceEnded(s) ==
    /\ s \in sourcesRef
    /\ currentTime >= s.start + s.dur
    /\ sourcesRef' = sourcesRef \ {s}
    /\ isExaminerSpeaking' = IF sourcesRef' = {} THEN SetState(isExaminerSpeaking, FALSE)
                                                 ELSE isExaminerSpeaking
    /\ UNCHANGED <<lifecycleVars, transcriptVars, nextStartTimeRef, endedPending,
                   outbound, currentTime>>
    /\ UNCHANGED reportVars
    /\ UNCHANGED <<activeVars, codecVars, countdownVars>>

\* The same listener for a source that stop() ended: it left the active set
\* when it was stopped.
StoppedEnded ==
    /\ endedPending > 0
    /\ endedPending' = endedPending - 1
    /\ isExaminerSpeaking' = IF sourcesRef = {} THEN SetState(isExaminerSpeaking, FALSE)
                                                ELSE isExaminerSpeaking
    /\ UNCHANGED <<lifecycleVars, transcriptVars, nextStartTimeRef, sourcesRef,
                   outbound, currentTime>>
    /\ UNCHANGED reportVars
    /\ UNCHANGED <<activeVars, codecVars, countdownVars>>

\* ------------------------------------------- the post-session report (App)
\* The six fields the response schema requires.  A report is modelled by
\* where it comes from and the fields it has.
RequiredFields ==
    {"grade", "score", "feedback", "strengths", "weaknesses", "topicsCovered"}
NoStats == [origin |-> "null", fields |-> {}]
FallbackReport == [origin |-> "fallback", fields |-> RequiredFields]

\* How the evaluation call settles: the request rejects (network failure),
\* or resolves with an empty text, with a text that is not JSON, or with
\* the JSON text of an object that has some of the required fields.
Responses ==
    [kind : {"rejected", "empty", "unparsable"}, fields : {{}}]
        \cup [kind : {"object"}, fields : SUBSET RequiredFields]

\* JSON.parse(response.text || '{}'), line 78: it throws on a text that is
\* not JSON; the empty text is replaced by '{}', the object with no field.
ParseThrows(r) == r.kind = "unparsable"
Parse(r) == [origin |-> "response",
             fields |-> IF r.kind = "empty" THEN {} ELSE r.fields]

\* Lines 78-89: the parsed value is stored as it is; the catch block stores
\* the fixed report.
Stored(r) ==
    IF r.kind = "rejected" \/ ParseThrows(r) THEN FallbackReport ELSE Parse(r)

\* generateReport after its await, with the finally block.
GenerateReportSettled(r) ==
    /\ isGeneratingReport
    /\ examStats' = Stored(r)
    /\ isGeneratingReport' = FALSE
    /\ UNCHANGED <<lifecycleVars, transcriptVars, playbackVars, outbound,
                   currentTime>>
    /\ UNCHANGED <<activeVars, codecVars, countdownVars>>

\* --------------------------------------------------------------- codec
\* One call of a codec function is examined at a time: probe holds the
\* function, its argument and, once the call is made, its result.
NoProbe == [fn |-> "none", in |-> <<>>, out |-> <<>>, done |-> FALSE]
Call(fn, in) == [fn |-> fn, in |-> in, out |-> <<>>, done |-> FALSE]

RECURSIVE SeqsUpTo(_, _)
SeqsUpTo(S, n) ==
    IF n = 0 THEN {<<>>}
    ELSE SeqsUpTo(S, n - 1) \cup
         {Append(q, x) : q \in {r \in SeqsUpTo(S, n - 1) : Len(r) = n - 1}, x \in S}

\* encode, lines 66-73.  String.fromCharCode(b) is the code unit b; btoa
\* writes each three characters as four sextets and pads a shorter tail
\* with '=' (Pad); it rejects a character above 255.
Pad == 64
FromCharCode_7bit(b) == b % 128
FromCharCode(b) == b % 65536
BinaryString(bytes) == [i \in 1..Len(bytes) |-> FromCharCode(bytes[i])]

RECURSIVE Btoa(_)
Btoa(s) ==
    IF s = <<>> THEN <<>>
    ELSE IF Len(s) = 1
      THEN <<s[1] \div 4, (s[1] % 4) * 16, Pad, Pad>>
    ELSE IF Len(s) = 2
      THEN <<s[1] \div 4, (s[1] % 4) * 16 + s[2] \div 16, (s[2] % 16) * 4, Pad>>
    ELSE <<s[1] \div 4, (s[1] % 4) * 16 + s[2] \div 16,
           (s[2] % 16) * 4 + s[3] \div 64, s[3] % 64>>
         \o Btoa(SubSeq(s, 4, Len(s)))
encode(bytes) == Btoa(BinaryString(bytes))

\* decode, lines 75-83.  atob reads each four sextets back as three
\* characters, fewer where the group is padded; charCodeAt gives the code
\* unit, which the Uint8Array stores modulo 256.
RECURSIVE Atob(_)
Atob(t) ==
    IF t = <<>> THEN <<>>
    ELSE LET c1 == t[1] * 4 + t[2] \div 16
             rest == Atob(SubSeq(t, 5, Len(t)))
         IN  IF t[3] = Pad THEN <<c1>> \o rest
             ELSE LET c2 == (t[2] % 16) * 16 + t[3] \div 4
                  IN  IF t[4] = Pad THEN <<c1, c2>> \o rest
                      ELSE <<c1, c2, (t[3] % 4) * 64 + t[4]>> \o rest
decode(base64) == [i \in 1..Len(Atob(base64)) |-> Atob(base64)[i] % 256]

\* Float samples are counted in steps of 1/(32768 * Sub): the sample x is
\* the integer x * Unit.
Sub == 4
Unit == 32768 * Sub

\* Line 224, int16[i] = inputData[i] * 32768: the product, which is the
\* sample's count of steps divided by Sub, is truncated toward zero and
\* stored modulo 2^16 as a signed value (ToInt16).
Truncate(num, den) == IF num >= 0 THEN num \div den ELSE -((-num) \div den)
ToInt16_Clamped(n) == IF n > 32767 THEN 32767 ELSE IF n < -32768 THEN -32768 ELSE n
ToInt16(n) == LET low == n % 65536 IN IF low >= 32768 THEN low - 65536 ELSE low
FloatToInt16(x) == ToInt16(Truncate(x, Sub))

\* Line 98, dataInt16[...] / 32768.0: n / 32768 is n * Sub steps.
Int16ToFloat(n) == n * Sub

\* decodeAudioData, lines 85-102, on the samples of the Int16Array.  The
\* frame count is the quotient, fractional when the length is not a
\* multiple of the channels; createBuffer takes it as an unsigned long (the
\* fraction is dropped) and rejects 0 frames with NotSupportedError.  The
\* loops write the frames the buffer has; a write past its end is ignored.
Frames(len, numChannels) == Truncate(len, numChannels)
CreateBufferThrows(numChannels, frames) == frames = 0
decodeAudioData(dataInt16, numChannels) ==
    LET frameCount == Frames(Len(dataInt16), numChannels)
    IN  IF CreateBufferThrows(numChannels, frameCount)
          THEN [error |-> "NotSupportedError", channels |-> <<>>]
          ELSE [error |-> "none",
                channels |->
                    [channel \in 1..numChannels |->
                        [i \in 1..frameCount |->
                            Int16ToFloat(dataInt16[(i - 1) * numChannels + channel])]]]

\* The arguments examined.
ByteValues == {0, 1, 127, 128, 255}
ByteInputs == SeqsUpTo(ByteValues, MaxBytes)
Window == 2 * Sub
Around(v) == (v * Sub - Window)..(v * Sub + Window)
FloatInputs ==
    UNION {Around(v) : v \in {-98304, -65536, -32768, -16384, 0, 16384,
                              32767, 32768, 65535, 65536, 98304}}
Int16Values == {-32768, -1, 0, 32767}
AudioInputs ==
    {[data |-> d, numChannels |-> n] :
        d \in SeqsUpTo(Int16Values, MaxSamples), n \in 1..MaxChannels}
Calls ==
    {Call("decode(encode)", b) : b \in ByteInputs}
    \cup {Call("toInt16", x) : x \in FloatInputs}
    \cup {Call("toInt16ToFloat", x) : x \in FloatInputs}
    \cup {Call("decodeAudioData", a) : a \in AudioInputs}

Return(v) == probe' = [probe EXCEPT !.out = v, !.done = TRUE]
RoomUnchanged ==
    UNCHANGED <<lifecycleVars, transcriptVars, playbackVars, reportVars,
                activeVars, countdownVars, outbound, currentTime>>

\* The bytes go through encode and the text through decode.
RoundTrip ==
    /\ probe.fn = "decode(encode)" /\ ~probe.done
    /\ Return(decode(encode(probe.in)))
    /\ RoomUnchanged

\* The producer's conversion of one sample.
Convert ==
    /\ probe.fn = "toInt16" /\ ~probe.done
    /\ Return(FloatToInt16(probe.in))
    /\ RoomUnchanged

\* The producer's conversion, then decodeAudioData's.
ConvertBack ==
    /\ probe.fn = "toInt16ToFloat" /\ ~probe.done
    /\ Return(Int16ToFloat(FloatToInt16(probe.in)))
    /\ RoomUnchanged

DecodeAudio ==
    /\ probe.fn = "decodeAudioData" /\ ~probe.done
    /\ Return(decodeAudioData(probe.in.data, probe.in.numChannels))
    /\ RoomUnchanged

\* ------------------------------------------------------ specification
InitRoom ==
    /\ mounted = "init"
    /\ examStatus = "CONNECTING"
    /\ selectedPersonaId = InitialPersona
    /\ errorMessage = NoError
    /\ isClosingRef = FALSE
    /\ sessionRef = NoSession
    /\ frameIntervalRef = NoSession
    /\ streamRef = FALSE
    /\ audioContexts = 0
    /\ chan = [c \in Ids |-> NoChan]
    /\ tap = [c \in Ids |-> FALSE]
    /\ ticker = [c \in Ids |-> FALSE]
    /\ retry = [c \in Ids |-> "none"]
    /\ outbound = NoMsg
    /\ transcriptions = <<>>
    /\ currentInputTextRef = <<>>
    /\ currentOutputTextRef = <<>>
    /\ isExaminerSpeaking = FALSE
    /\ nextStartTimeRef = 0
    /\ sourcesRef = {}
    /\ endedPending = 0
    /\ currentTime = 0
    /\ examStats = NoStats
    /\ isGeneratingReport = FALSE
    /\ isActive = FALSE
    /\ closeSeen = {}
    /\ timeLeft = initialTimeSeconds
    /\ sessionTranscript = <<>>

Init == InitRoom /\ probe = NoProbe

\* The session lifecycle: the effect, startSession and the channel's open
\* and error callbacks.
Lifecycle ==
    \/ Mount
    \/ \E p \in PERSONAS : PersonaChange(p)
    \/ EndExam
    \/ \E c \in Ids : ResumeDone(c)
    \/ \E c \in Ids : DeviceGranted(c)
    \/ \E c \in Ids : DeviceDenied(c)
    \/ \E c \in Ids : ConnectRejected(c)
    \/ \E c \in Ids : ChannelOpen(c)
    \/ \E c \in Ids : ChannelError(c)
    \/ \E c \in Ids : RetryFire(c)

\* The two capture producers.
Capture ==
    \/ \E c \in Ids : AudioProcess(c)
    \/ \E c \in Ids : FrameTick(c)

\* One room whose channel reports no error and whose persona is kept.
OneSession ==
    \/ Mount
    \/ EndExam
    \/ \E c \in Ids : ResumeDone(c)
    \/ \E c \in Ids : DeviceGranted(c)
    \/ \E c \in Ids : ChannelOpen(c)

\* Messages that carry text and the turn boundary only; those that carry
\* audio and the interruption only; a whole turn of either role in one
\* message, and the interruption.
TranscriptMessages == {m \in Messages : m.audio = 0 /\ m.decodable /\ ~m.interrupted}
PlaybackMessages ==
    {m \in Messages : m.out = <<>> /\ m.inp = <<>> /\ ~m.turnComplete
                      /\ (m.audio = 0 => m.decodable)}
Quiet == [audio |-> 0, decodable |-> TRUE, out |-> <<>>, inp |-> <<>>,
          turnComplete |-> FALSE, interrupted |-> FALSE]
TurnMessages ==
    {[Quiet EXCEPT !.inp = <<(<<"A">>)>>, !.turnComplete = TRUE],
     [Quiet EXCEPT !.out = <<(<<"A">>)>>, !.turnComplete = TRUE],
     [Quiet EXCEPT !.interrupted = TRUE]}

\* The actions of the four groups read and write disjoint state apart from
\* the lifecycle (OnMessage reads chan and mounted; only the lifecycle
\* writes them), so each specification pairs the lifecycle, or one session
\* of it, with the group its properties are about.

\* The lifecycle with the capture producers.
Next == Lifecycle \/ Capture
Spec == Init /\ [][Next]_vars

\* The lifecycle with messages that commit a turn or interrupt.
NextLog == Lifecycle \/ \E c \in Ids, m \in TurnMessages : OnMessage(c, m)
SpecLog == Init /\ [][NextLog]_vars

\* One session with every transcript message.
NextTranscript ==
    OneSession \/ \E c \in Ids, m \in TranscriptMessages : OnMessage(c, m)
SpecTranscript == Init /\ [][NextTranscript]_vars

\* One session with every audio and interruption message, and playback.
NextPlayback ==
    \/ OneSession
    \/ \E c \in Ids, m \in PlaybackMessages : OnMessage(c, m)
    \/ ClockAdvance
    \/ \E s \in sourcesRef : SourceEnded(s)
    \/ StoppedEnded
SpecPlayback == Init /\ [][NextPlayback]_vars

\* The lifecycle with one kind of audio message.
AudioMessages == {[Quiet EXCEPT !.audio = 1]}
NextTimeline ==
    \/ Lifecycle
    \/ \E c \in Ids, m \in AudioMessages : OnMessage(c, m)
SpecTimeline == Init /\ [][NextTimeline]_vars

\* One session with the messages that carry one unit of decodable audio and
\* at most one fragment (either letter for the candidate, one letter for
\* the examiner), with or without the two signals.
OrderMessages ==
    {m \in Messages : /\ m.audio = 1 /\ m.decodable
                      /\ m.inp = <<>> \/ m.out = <<>>
                      /\ m.out \in {<<>>, <<(<<"A">>)>>}}
NextOrder ==
    OneSession \/ \E c \in Ids, m \in OrderMessages : OnMessage(c, m)
SpecOrder == Init /\ [][NextOrder]_vars

\* One session and its reconnects after channel errors, with the close
\* events, the turn messages and the countdown.
NextCountdown ==
    \/ OneSession
    \/ \E c \in Ids : ChannelError(c)
    \/ \E c \in Ids : RetryFire(c)
    \/ \E c \in Ids : ChannelClosed(c)
    \/ \E c \in Ids, m \in TurnMessages : OnMessage(c, m)
    \/ Tick
    \/ TimeUp
SpecCountdown == Init /\ [][NextCountdown]_vars

\* The lifecycle with a message that streams a fragment of examiner text
\* and a message that completes the turn with a fragment of candidate text.
CarryMessages ==
    {[Quiet EXCEPT !.out = <<(<<"A">>)>>],
     [Quiet EXCEPT !.inp = <<(<<"B">>)>>, !.turnComplete = TRUE]}
NextCarry == Lifecycle \/ \E c \in Ids, m \in CarryMessages : OnMessage(c, m)
SpecCarry == Init /\ [][NextCarry]_vars

\* One session with examiner text and audio, candidate text, the interrupt
\* signal alone or together with a turn-complete, and the turn-complete.
BargeInMessages ==
    {[Quiet EXCEPT !.out = <<(<<"A">>)>>, !.audio = 1],
     [Quiet EXCEPT !.inp = <<(<<"B">>)>>],
     [Quiet EXCEPT !.interrupted = TRUE],
     [Quiet EXCEPT !.interrupted = TRUE, !.turnComplete = TRUE],
     [Quiet EXCEPT !.turnComplete = TRUE]}
NextBargeIn ==
    OneSession \/ \E c \in Ids, m \in BargeInMessages : OnMessage(c, m)
SpecBargeIn == Init /\ [][NextBargeIn]_vars

\* The codec functions, each applied to every argument examined.
InitCodec == InitRoom /\ probe \in Calls
NextCodec == RoundTrip \/ Convert \/ ConvertBack \/ DecodeAudio
SpecCodec == InitCodec /\ [][NextCodec]_vars

\* The lifecycle with the channels' close events.
NextActive == Lifecycle \/ \E c \in Ids : ChannelClosed(c)
SpecActive == Init /\ [][NextActive]_vars

\* One session to its end, and the evaluation call that follows it.
NextReport ==
    \/ OneSession
    \/ \E r \in Responses : GenerateReportSettled(r)
SpecReport == Init /\ [][NextReport]_vars

\* The lifecycle and the producers under the scheduling the browser
\* guarantees: a timer that was set fires, and the promises of resume() and
\* getUserMedia settle.
SpecFair ==
    /\ Spec
    /\ \A c \in Ids : WF_vars(RetryFire(c))
    /\ \A c \in Ids : WF_vars(ResumeDone(c))
    /\ \A c \in Ids : WF_vars(DeviceGranted(c) \/ DeviceDenied(c))

\* ------------------------------------------------------------- properties
\* C1: no outbound realtime input (audio block or camera image) is sent on
\* a channel whose close() has already been called.
C1_NoSendAfterClose == outbound.target # "closed"

\* C2: at most one channel is connected and not yet closed at any time.
C2_AtMostOneOpenChannel == Cardinality(OpenChannels) <= 1

\* C3: a retry timer set by a channel error and still pending when the
\* controller is torn down (the closing flag set by the effect's cleanup)
\* invokes no connect when it fires.
Connected(c) == chan[c].st \in {"connecting", "open", "stalled", "errored", "closed"}
C3_NoConnectAfterTeardown ==
    \A c \in Ids : chan[c].origin = "lateRetry" => ~Connected(c)

\* C4: after an explicit stop no channel that was open, or whose connect
\* was in flight, at the stop is left open.  Once the room is unmounted, no timer is pending and
\* no start attempt is in flight, nothing can call close() any more, so a
\* channel connected in such a state stays open for ever.
Quiescent ==
    /\ mounted = "unmounted"
    /\ PendingRetries = {}
    /\ \A c \in Ids : chan[c].st \notin {"resuming", "acquiring", "connecting"}
C4_StopLeadsToClosed ==
    Quiescent => \A c \in OpenChannels : ~chan[c].atStop

\* C5: every channel error on a mounted controller sets the transient
\* message and schedules the retry, and every scheduled retry leads to a
\* connect invoked by the attempt it starts, unless the room is unmounted
\* first; nothing counts the retries.
RetryConnected(c) ==
    \E d \in Ids : chan[d].cause = c /\ Connected(d)
C5_ErrorStep ==
    \A c \in Ids :
        (chan[c].st # "errored" /\ chan'[c].st = "errored" /\ mounted = "mounted")
            => (errorMessage' = SystemError /\ retry'[c] = "pending")
C5_ErrorRetried ==
    /\ [][C5_ErrorStep]_vars
    /\ \A c \in Ids :
         (retry[c] = "pending") ~> (RetryConnected(c) \/ mounted = "unmounted")
C5_Witness ==
    \E c, d \in Ids :
        /\ mounted = "mounted" /\ retry[c] = "fired" /\ retry[d] = "fired"
        /\ c # d /\ chan[d].cause = c /\ RetryConnected(d)

\* What a message carries for each role, as text.
ArrivedInput(m) == IF m.inp # <<>> THEN m.inp[1] ELSE <<>>
ArrivedOutput(m) == IF m.out # <<>> THEN m.out[1] ELSE <<>>
OneFragment(m) == m.inp = <<>> \/ m.out = <<>>
CandidateEntry(t) == [role |-> "user", text |-> t]
ExaminerEntry(t) == [role |-> "examiner", text |-> t]

\* C6: fragments arrive one per message; each is appended at the end of
\* its role's accumulator, and a turn-complete that finds text of both
\* roles appends the candidate entry with the input text, then the examiner
\* entry with the output text, and empties both accumulators.  (The log is
\* the state of the mounted room.)
C6_Step(m) ==
    LET inp == currentInputTextRef \o ArrivedInput(m)
        out == currentOutputTextRef \o ArrivedOutput(m)
    IN  IF m.turnComplete
          THEN (inp # <<>> /\ out # <<>>) =>
                  /\ mounted = "mounted" =>
                       transcriptions' =
                          transcriptions \o <<CandidateEntry(inp), ExaminerEntry(out)>>
                  /\ currentInputTextRef' = <<>>
                  /\ currentOutputTextRef' = <<>>
          ELSE /\ currentInputTextRef' = inp
               /\ currentOutputTextRef' = out
               /\ transcriptions' = transcriptions
C6_TurnCommitOrder ==
    [][\A c \in Ids, m \in TranscriptMessages :
          (OnMessage(c, m) /\ OneFragment(m)) => C6_Step(m)]_vars
C6_Witness ==
    /\ transcriptions = <<CandidateEntry(<<"A", "B">>), ExaminerEntry(<<"A">>)>>
    /\ currentInputTextRef = <<>>
    /\ currentOutputTextRef = <<>>

\* C7: a turn-complete appends an entry for a role only when that role's
\* accumulator is non-empty: only output text pending gives exactly one
\* examiner entry, only input text exactly one candidate entry, none
\* leaves the log unchanged; no committed entry has empty text.
C7_Step(m) ==
    LET inp == currentInputTextRef \o ArrivedInput(m)
        out == currentOutputTextRef \o ArrivedOutput(m)
    IN  (m.turnComplete /\ mounted = "mounted") =>
          /\ (inp = <<>> /\ out # <<>>) =>
                transcriptions' = Append(transcriptions, ExaminerEntry(out))
          /\ (inp # <<>> /\ out = <<>>) =>
                transcriptions' = Append(transcriptions, CandidateEntry(inp))
          /\ (inp = <<>> /\ out = <<>>) => transcriptions' = transcriptions
C7_NoEmptyEntry ==
    /\ [][\A c \in Ids, m \in TranscriptMessages :
            (OnMessage(c, m) /\ OneFragment(m)) => C7_Step(m)]_vars
    /\ [](\A i \in 1..Len(transcriptions) : transcriptions[i].text # <<>>)
C7_Witness ==
    /\ transcriptions = <<ExaminerEntry(<<"A", "B">>), CandidateEntry(<<"A">>)>>
    /\ currentInputTextRef = <<>>
    /\ currentOutputTextRef = <<>>

\* C8: the committed log is append-only: every step leaves the previous log
\* as a prefix of the new one.
IsPrefix(a, b) == Len(a) <= Len(b) /\ \A i \in 1..Len(a) : a[i] = b[i]
C8_AppendOnly == [][IsPrefix(transcriptions, transcriptions')]_vars
C8_Witness ==
    /\ Len(transcriptions) >= 2
    /\ mounted = "unmounted"
    /\ selectedPersonaId # InitialPersona
    /\ \E c \in Ids : retry[c] = "fired"

\* C9: every message that carries an input fragment appends it to the
\* candidate accumulator and every message that carries an output fragment
\* appends it to the examiner accumulator, whatever else it carries (a
\* turn-complete in the same message then commits the text so extended).
C9_Step(m) ==
    LET inp == currentInputTextRef \o ArrivedInput(m)
        out == currentOutputTextRef \o ArrivedOutput(m)
    IN  IF m.turnComplete
          THEN mounted = "mounted" =>
                  transcriptions' = Commit(transcriptions, [inp |-> inp, out |-> out])
          ELSE /\ currentInputTextRef' = inp
               /\ currentOutputTextRef' = out
C9_EveryFragmentAppended ==
    [][\A c \in Ids, m \in TranscriptMessages :
          (OnMessage(c, m) /\ mounted = "mounted") => C9_Step(m)]_vars

\* C10: after an interrupted signal is processed the active set is empty
\* (every buffer that was active, and the one the same message enqueued,
\* has been stopped), nextStartTime is 0 and the examiner-speaking flag is
\* false, however many buffers were active; a buffer enqueued while
\* nextStartTime is 0 starts at the output clock's current time.
C10_Step(m) ==
    /\ m.interrupted =>
          /\ sourcesRef' = {}
          /\ nextStartTimeRef' = 0
          /\ ~isExaminerSpeaking'
          /\ endedPending' = endedPending + Cardinality(sourcesRef)
                               + (IF m.audio > 0 THEN 1 ELSE 0)
    /\ (m.audio > 0 /\ ~m.interrupted /\ nextStartTimeRef = 0) =>
          /\ [start |-> currentTime, dur |-> m.audio] \in sourcesRef'
          /\ nextStartTimeRef' = currentTime + m.audio
C10_InterruptClears ==
    [][\A c \in Ids, m \in PlaybackMessages :
          (OnMessage(c, m) /\ ~Throws(m)) => C10_Step(m)]_vars
C10_Witness ==
    /\ mounted = "mounted"
    /\ endedPending = 2
    /\ currentTime = 1
    /\ sourcesRef = {[start |-> 1, dur |-> 1]}
    /\ nextStartTimeRef = 2

\* C11: with no interrupt in between, each buffer starts at the maximum of
\* the end of the previous buffer and the output clock at the enqueue: at
\* the predicted start when the clock has not passed it (no gap), never
\* before the end of a buffer already scheduled (no overlap), and the
\* timeline then stands at the end of the new buffer.  Between enqueues of
\* a session the timeline is the end of the last scheduled buffer, unless
\* the clock has passed it.
Ends(s) == s.start + s.dur
NoOverlap(srcs) ==
    \A s, t \in srcs : s # t => (Ends(s) <= t.start \/ Ends(t) <= s.start)
Timeline ==
    /\ \A s \in sourcesRef : Ends(s) <= nextStartTimeRef
    /\ mounted = "mounted" =>
          \/ nextStartTimeRef <= currentTime
          \/ \E s \in sourcesRef : Ends(s) = nextStartTimeRef
C11_Step(m) ==
    LET predicted == nextStartTimeRef
        start == IF currentTime <= predicted THEN predicted ELSE currentTime
    IN  (m.audio > 0 /\ ~m.interrupted) =>
          /\ sourcesRef' = sourcesRef \cup {[start |-> start, dur |-> m.audio]}
          /\ nextStartTimeRef' = start + m.audio
          /\ \A s \in sourcesRef : Ends(s) <= start
C11_GaplessSchedule ==
    /\ [][\A c \in Ids, m \in PlaybackMessages :
            (OnMessage(c, m) /\ ~Throws(m)) => C11_Step(m)]_vars
    /\ [](NoOverlap(sourcesRef) /\ Timeline)
C11_Witness ==
    /\ currentTime = 1
    /\ sourcesRef = {[start |-> 1, dur |-> 1], [start |-> 2, dur |-> 1],
                     [start |-> 3, dur |-> 1]}
    /\ nextStartTimeRef = 4

\* C12: at the moment a channel opens (first start, reconnect after an
\* error, restart after a persona change) the timeline holds no time left
\* over from an earlier session: a buffer enqueued at that moment would
\* start at the output clock's current time.  (Stated for a channel that
\* opens after every earlier channel was closed.)
C12_Step ==
    \A c \in Ids :
        (/\ chan[c].st = "connecting" /\ chan'[c].st = "open"
         /\ \A d \in Ids \ {c} : chan[d].st \in {"none", "closed"})
            => Max(nextStartTimeRef', currentTime') = currentTime'
C12_FreshTimelineAtOpen == [][C12_Step]_vars

\* C13: every step that runs stopActiveSession (a start attempt, the
\* effect's cleanup on a persona change, on the end of the exam or on a
\* reported failure) leaves the session handle null with the channel it
\* held closed, the interval handle null with the timer it held cancelled,
\* every buffer of the active set stopped, the set empty and the
\* examiner-speaking flag false.
RunsStopActiveSession ==
    \/ Mount
    \/ \E p \in PERSONAS : PersonaChange(p)
    \/ EndExam
    \/ \E c \in Ids : RetryFire(c)
    \/ mounted = "mounted" /\ \E c \in Ids : DeviceDenied(c) \/ ConnectRejected(c)
C13_Post ==
    /\ sessionRef' = NoSession
    /\ sessionRef # NoSession => chan'[sessionRef].st = "closed"
    /\ frameIntervalRef' = NoSession
    /\ frameIntervalRef # NoSession => ~ticker'[frameIntervalRef]
    /\ sourcesRef' = {}
    /\ endedPending' = endedPending + Cardinality(sourcesRef)
    /\ ~isExaminerSpeaking'
C13_StopPostcondition == [][RunsStopActiveSession => C13_Post]_vars
C13_Witness ==
    /\ mounted = "mounted"
    /\ selectedPersonaId # InitialPersona
    /\ chan[1].st = "closed" /\ ~ticker[1]
    /\ sessionRef = NoSession /\ frameIntervalRef = NoSession
    /\ sourcesRef = {} /\ endedPending = 2
    /\ ~isExaminerSpeaking

\* C14: while the closing flag is set, or while no session handle is held,
\* an audio-block callback or an interval tick records no outbound
\* message.  (The send continuation runs in the task of the callback that
\* queued it, the session promise being resolved since the channel opened:
\* its test of the flag is part of the same step.)
Blocked == isClosingRef \/ sessionRef = NoSession
C14_Step ==
    \A c \in Ids :
        ((AudioProcess(c) \/ FrameTick(c)) /\ Blocked) => outbound' = outbound
C14_ClosingGuard == [][C14_Step]_vars
C14_Witness ==
    /\ isClosingRef
    /\ sessionRef = NoSession
    /\ \E c \in Ids : tap[c] /\ ticker[c] /\ outbound = [ch |-> c, mimeType |-> ImageMime,
                                                         target |-> "open"]

\* C15: a persona change performs a close-then-connect cycle: every channel
\* that is open under the persona being left is closed by the step that
\* starts the new attempt, the new attempt carries the newly selected
\* persona, and no step changes the persona of an attempt already started.
C15_Step ==
    \A p \in PERSONAS :
        PersonaChange(p) =>
            /\ \A c \in Ids :
                  (chan[c].st = "open" /\ chan[c].persona = selectedPersonaId)
                      => chan'[c].st = "closed"
            /\ chan'[NextId].st = "resuming"
            /\ chan'[NextId].persona = p
C15_ConfigImmutable ==
    \A c \in Used : chan'[c].persona = chan[c].persona
C15_PersonaChangeCycle == [][C15_Step /\ C15_ConfigImmutable]_vars

\* C16: a failed device acquisition reports ERROR, never connects a channel
\* for its attempt and sets no retry timer; and once an acquisition has
\* failed, no connect is invoked by an attempt that a retry timer, pending
\* when the failure was reported, started afterwards.
C16_Failure ==
    \A c \in Ids :
        /\ DeviceDenied(c) =>
              /\ examStatus' = "ERROR"
              /\ \A d \in Ids : retry'[d] = "pending" => retry[d] = "pending"
        /\ chan[c].st = "failed" => chan'[c].st = "failed"
C16_NoConnect ==
    (\E c \in Ids : chan[c].st = "failed") =>
        \A d \in Ids :
            (chan[d].st # "connecting" /\ chan'[d].st = "connecting")
                => chan[d].origin # "lateRetry"
C16_DeviceFailureFinal == [][C16_Failure /\ C16_NoConnect]_vars

\* C17: the ERROR status is reported only by a failed device acquisition:
\* a step that moves the status to ERROR is the rejection of a device
\* request, and a channel error leaves the status alone, sets the
\* transient message and the retry timer.
C17_OnlyDevice ==
    (examStatus # "ERROR" /\ examStatus' = "ERROR") =>
        \E c \in Ids : chan[c].st = "acquiring" /\ chan'[c].st = "failed"
C17_ChannelError ==
    \A c \in Ids :
        ChannelError(c) =>
            /\ examStatus' = examStatus
            /\ mounted = "mounted" => errorMessage' = SystemError
            /\ retry'[c] = "pending"
C17_ErrorOnlyForDevices == [][C17_OnlyDevice /\ C17_ChannelError]_vars

\* C18: whenever the evaluation call settles otherwise than with a
\* well-formed response (an object with all six required fields), the
\* stored report is the fixed fallback report; the generating flag is false
\* after every outcome.
WellFormed(r) == r.kind = "object" /\ r.fields = RequiredFields
C18_Step ==
    \A r \in Responses :
        GenerateReportSettled(r) =>
            /\ ~isGeneratingReport'
            /\ ~WellFormed(r) => examStats' = FallbackReport
C18_FallbackOnEveryFailure == [][C18_Step]_vars

\* C19: a message whose audio payload cannot be decoded leaves the channel
\* open and adds no source, and the room is afterwards in the state the
\* same message without its audio would have left it in: the rest of the
\* message is dispatched and nothing of the bad payload remains (the
\* timeline may have been raised to the clock, which no later enqueue can
\* tell).
WithoutAudio(m) == [m EXCEPT !.audio = 0, !.decodable = TRUE]
C19_Step(c, m) ==
    LET q == WithoutAudio(m)
        turn == TurnComplete(transcriptions, AppendFragments(Pending, q), q)
        play == Interrupted(Playback, q)
    IN  /\ chan'[c].st = "open"
        /\ sourcesRef' = play.sources
        /\ isExaminerSpeaking' = play.speaking
        /\ nextStartTimeRef' \in {play.next, Max(play.next, currentTime)}
        /\ transcriptions' = turn.log
        /\ currentInputTextRef' = turn.pending.inp
        /\ currentOutputTextRef' = turn.pending.out
C19_BadAudioDropped ==
    [][\A c \in Ids, m \in PlaybackMessages :
          (OnMessage(c, m) /\ Throws(m)) => C19_Step(c, m)]_vars

\* C20: at any time at most one interval timer is live and at most one
\* audio tap forwards the blocks it is delivered (it is wired and the
\* guards of its callback pass), so that one captured block gives at most
\* one outbound message.  (Stated for the states in which every channel
\* but the one the session handle holds has been closed.)
LiveTimers == {c \in Ids : ticker[c]}
ForwardingTaps == {c \in Ids : tap[c] /\ ProducerGuard /\ SendGuard}
OthersClosed == \A c \in Ids \ {sessionRef} : chan[c].st \in {"none", "closed"}
C20_OneTimerOneTap ==
    OthersClosed =>
        /\ Cardinality(LiveTimers) <= 1
        /\ Cardinality(ForwardingTaps) <= 1

\* C21: messages take effect in arrival order.  The effects of a message
\* build on the state all earlier messages left: its buffer is scheduled
\* after every buffer scheduled before it, its fragment goes to the end of
\* the text accumulated so far, its turn-complete commits the accumulated
\* text with its own fragment included, and its interrupt stops its own
\* buffer too.
C21_Step(m) ==
    LET inp == currentInputTextRef \o ArrivedInput(m)
        out == currentOutputTextRef \o ArrivedOutput(m)
        added == sourcesRef' \ sourcesRef
    IN  /\ \A n \in added : \A s \in sourcesRef : Ends(s) <= n.start
        /\ (m.audio > 0 /\ ~m.interrupted) => Cardinality(added) = 1
        /\ m.interrupted => sourcesRef' = {}
        /\ IF m.turnComplete
              THEN /\ mounted = "mounted" =>
                        transcriptions' =
                            Commit(transcriptions, [inp |-> inp, out |-> out])
                   /\ currentInputTextRef' = <<>>
                   /\ currentOutputTextRef' = <<>>
              ELSE /\ currentInputTextRef' = inp
                   /\ currentOutputTextRef' = out
                   /\ transcriptions' = transcriptions
C21_ArrivalOrder ==
    [][\A c \in Ids, m \in OrderMessages : OnMessage(c, m) => C21_Step(m)]_vars
C21_Witness ==
    /\ transcriptions = <<CandidateEntry(<<"A", "B">>)>>
    /\ currentInputTextRef = <<>>
    /\ sourcesRef = {[start |-> 0, dur |-> 1], [start |-> 1, dur |-> 1]}
    /\ nextStartTimeRef = 2

\* C22: the device handle and the audio contexts are acquired only when
\* absent.  A device request is made only while no stream is held; a start
\* attempt that finds the stream held goes on to connect with the same
\* stream; and the contexts, once created, are never created again.
C22_Step ==
    /\ \A c \in Ids :
          (chan[c].st # "acquiring" /\ chan'[c].st = "acquiring") => ~streamRef
    /\ \A c \in Ids :
          (ResumeDone(c) /\ streamRef) =>
              chan'[c].st = "connecting" /\ streamRef'
    /\ audioContexts > 0 => audioContexts' = audioContexts
C22_AcquiredOnlyWhenAbsent == [][C22_Step]_vars
C22_Witness ==
    /\ mounted = "mounted"
    /\ streamRef
    /\ audioContexts = 1
    /\ chan[1].st = "closed"
    /\ retry[1] = "fired"
    /\ chan[2].origin = "retry"
    /\ chan[2].st = "connecting"
    /\ \A c \in Ids : chan[c].st # "acquiring" /\ (c > 2 => chan[c].st = "none")

\* C23: in the mounted room, a source that plays to its end leaves the
\* active set; the speaking flag is cleared when the set is then empty and
\* keeps its value when other sources remain.  A message with an audio
\* payload sets the flag (unless the same message, its payload decoded,
\* also carries the interrupt, which is handled after the payload).
C23_Step ==
    /\ \A s \in sourcesRef :
          (SourceEnded(s) /\ mounted = "mounted") =>
              /\ sourcesRef' = sourcesRef \ {s}
              /\ IF sourcesRef' = {} THEN ~isExaminerSpeaking'
                                     ELSE isExaminerSpeaking' = isExaminerSpeaking
    /\ \A c \in Ids, m \in PlaybackMessages :
          (/\ OnMessage(c, m)
           /\ mounted = "mounted"
           /\ m.audio > 0
           /\ ~(m.interrupted /\ m.decodable)) => isExaminerSpeaking'
C23_SpeakingFlag == [][C23_Step]_vars
C23_Witness ==
    /\ mounted = "mounted"
    /\ sourcesRef = {}
    /\ ~isExaminerSpeaking
    /\ nextStartTimeRef = 2
    /\ endedPending = 0
    /\ currentTime = 2

\* C24: the open callback of a channel, in the mounted room, reports ACTIVE,
\* sets isActive, wires the audio tap and starts the frame timer of that
\* channel; no channel has a tap or a timer before its open callback.
Opened(c) == chan[c].st \in {"open", "stalled", "closed", "errored"}
C24_Step ==
    /\ \A c \in Ids :
          (ChannelOpen(c) /\ mounted = "mounted") =>
              /\ examStatus' = "ACTIVE"
              /\ isActive'
              /\ tap'[c]
              /\ ticker'[c]
    /\ \A c \in Ids : (tap'[c] \/ ticker'[c]) => Opened(c)'
C24_OpenStartsProducers == [][C24_Step]_vars

\* C25: decode(encode(B)) = B for every byte sequence B examined.
C25_RoundTrip ==
    (probe.fn = "decode(encode)" /\ probe.done) => probe.out = probe.in
C25_Witness ==
    /\ probe.fn = "decode(encode)" /\ probe.done
    /\ probe.in = <<255, 0, 128, 1>>
    /\ probe.out = <<255, 0, 128, 1>>

\* C26: a sample s in [-1, 1], converted to int16 as the producer does and
\* back to a float as decodeAudioData does, comes back within 1/32768 of s
\* (Sub steps), the endpoints included.
InUnitRange(x) == -Unit <= x /\ x <= Unit
Distance(x, y) == IF x >= y THEN x - y ELSE y - x
C26_WithinOneStep ==
    (probe.fn = "toInt16ToFloat" /\ probe.done /\ InUnitRange(probe.in)) =>
        Distance(probe.out, probe.in) <= Sub

\* C27: the conversion stores the product truncated toward zero (rounded
\* down when positive, up when negative) modulo 2^16 as a signed value,
\* without clamping: v is stored as ((v + 32768) mod 65536) - 32768.
TowardZero(x) == IF x >= 0 THEN x \div Sub ELSE (x + Sub - 1) \div Sub
Wrapped(v) == ((v + 32768) % 65536) - 32768
C27_TruncateAndWrap ==
    (probe.fn = "toInt16" /\ probe.done) => probe.out = Wrapped(TowardZero(probe.in))
C27_Witness ==
    /\ probe.fn = "toInt16" /\ probe.done
    /\ probe.in = -32769 * Sub - 1
    /\ probe.out = 32767

Controller(s) == [s EXCEPT !.channels = <<>>]
C29_Once == StopResult(Now, FALSE)
C29_Function ==
    \A t \in BOOLEAN, u \in BOOLEAN :
        /\ ~StopResult(Now, t).threw
        /\ Controller(StopResult(Now, t)) = Controller(C29_Once)
        /\ StopResult(StopResult(Now, t), u) = StopResult(Now, t)
        /\ sessionRef = NoSession => StopResult(Now, t).channels = chan
C29_Step ==
    RunsStopActiveSession =>
        /\ C29_Function
        /\ Controller(Now)' = Controller(C29_Once)
C29_StopIdempotent == [][C29_Step]_vars
C29_Witness ==
    /\ mounted = "mounted"
    /\ selectedPersonaId # InitialPersona
    /\ chan[1].st = "closed" /\ chan[2].st = "resuming" /\ chan[3].st = "none"
    /\ Now = StopResult(Now, FALSE)
    /\ endedPending = 1

\* C30: in the mounted room the speaking flag is true whenever the active
\* set holds a source, whatever the order of audio messages, natural ends,
\* interrupts and the ended events of stopped sources.
C30_SpeakingWhileActive ==
    (mounted = "mounted" /\ sourcesRef # {}) => isExaminerSpeaking
C30_Witness ==
    /\ mounted = "mounted"
    /\ Cardinality(sourcesRef) = 2
    /\ isExaminerSpeaking
    /\ endedPending = 1
    /\ currentTime = 1

\* C31: in the mounted room, with the closing flag clear, an open channel
\* was connected under the selected persona.  Stated of the channel a retry
\* timer's attempt connected, while no other channel is connecting or
\* connected.
Alone(c) ==
    \A d \in Ids \ {c} :
        chan[d].st \in {"none", "closed", "errored", "failed", "rejected"}
C31_OpenUnderSelectedPersona ==
    \A c \in Ids :
        (/\ mounted = "mounted"
         /\ ~isClosingRef
         /\ chan[c].st = "open"
         /\ chan[c].origin = "retry"
         /\ Alone(c)) => chan[c].persona = selectedPersonaId

\* C32: once the room is unmounted with the status FINISHED or ERROR, no
\* callback of that room changes the status (the user's own actions from
\* those screens are not among the room's steps).
C32_Step ==
    (mounted = "unmounted" /\ examStatus \in {"FINISHED", "ERROR"}) =>
        examStatus' = examStatus
C32_FinalStatusStable == [][C32_Step]_vars

\* C33: in the mounted room, with the closing flag clear, isActive is true
\* while the channel of the latest attempt is open.  Stated while every
\* earlier channel has been closed by stopActiveSession.
EarlierClosed(c) == \A d \in Ids \ {c} : chan[d].st \in {"none", "closed"}
Latest == Cardinality(Used)
C33_ActiveWhileOpen ==
    (/\ mounted = "mounted"
     /\ ~isClosingRef
     /\ Latest > 0
     /\ chan[Latest].st = "open"
     /\ EarlierClosed(Latest)) => isActive

\* C34: timeLeft starts at the configured duration and never leaves
\* 0..duration; it changes only by a decrement of 1, made while the room is
\* mounted, isActive is true and timeLeft is above 0; and the step that
\* brings it to 0 hands the committed log to App and ends the exam.
C34_Range == timeLeft \in 0..initialTimeSeconds
C34_Step ==
    /\ C34_Range
    /\ mounted = "init" => timeLeft = initialTimeSeconds
    /\ timeLeft' # timeLeft =>
          /\ mounted = "mounted" /\ isActive /\ timeLeft > 0
          /\ timeLeft' = timeLeft - 1
          /\ timeLeft' = 0 =>
                /\ sessionTranscript' = transcriptions
                /\ examStatus' = "FINISHED"
                /\ mounted' = "unmounted"
                /\ isGeneratingReport'
C34_Countdown == [][C34_Step]_vars
C34_Witness ==
    /\ timeLeft = 0
    /\ examStatus = "FINISHED"
    /\ closeSeen # {}
    /\ sessionTranscript = <<CandidateEntry(<<"A">>)>>

\* C35: both pending accumulators are empty when a channel opens.  (Stated
\* for a channel that opens after every earlier channel was closed.)
C35_Step ==
    \A c \in Ids :
        (/\ chan[c].st = "connecting" /\ chan'[c].st = "open"
         /\ EarlierClosed(c))
            => currentInputTextRef' = <<>> /\ currentOutputTextRef' = <<>>
C35_EmptyAtOpen == [][C35_Step]_vars

\* C36: a message's interrupted signal changes the playback state and the
\* speaking flag only.  An interrupt that comes alone leaves the log and
\* both accumulators as they were; one that comes with a turn-complete
\* leaves what the turn-complete alone leaves: the pending text committed
\* and the accumulators empty.  Nothing else of the room changes.
C36_Step(m) ==
    /\ UNCHANGED <<lifecycleVars, reportVars, activeVars, countdownVars,
                   outbound, currentTime>>
    /\ IF m.turnComplete
          THEN /\ mounted = "mounted" =>
                    transcriptions' = Commit(transcriptions, Pending)
               /\ currentInputTextRef' = <<>>
               /\ currentOutputTextRef' = <<>>
          ELSE UNCHANGED transcriptVars
C36_InterruptFrame ==
    [][\A c \in Ids, m \in BargeInMessages :
          (OnMessage(c, m) /\ m.interrupted) => C36_Step(m)]_vars
C36_Witness ==
    /\ mounted = "mounted"
    /\ transcriptions = <<ExaminerEntry(<<"A">>)>>
    /\ currentOutputTextRef = <<>>
    /\ sourcesRef = {}
    /\ endedPending = 1
    /\ nextStartTimeRef = 0
    /\ ~isExaminerSpeaking

====
